---- MODULE Spec2Model ----
(***************************************************************************)
(* smartmcp: a gateway between one downstream MCP client and several       *)
(* upstream MCP servers.  The model covers the name codec                  *)
(* (upstream.py), the upstream connection manager (upstream.py), the       *)
(* startup sequence (server.py, lifespan) and the two request handlers     *)
(* (server.py, handle_list_tools / handle_call_tool).                      *)
(*                                                                         *)
(* Strings that the code inspects (origin names, tool names, identifiers)  *)
(* are sequences of one-character strings, so that concatenation and       *)
(* splitting are computed as Python computes them.                         *)
(***************************************************************************)
EXTENDS Naturals, Integers, Sequences, FiniteSets, TLC

(***************************************************************************)
(* Bounds of the model.                                                    *)
(***************************************************************************)
\* longest string the codec specification draws for an origin or tool name
MaxLen == 3
\* most origins in a configuration
MaxOrigins == 2
\* most tools one upstream server reports
MaxTools == 2
\* largest top_k a discovery request passes
MaxTopK == 3

\* config.top_k, at the value it has when the configuration file does not
\* set it
DefaultTopK == 5

(***************************************************************************)
(* Strings                                                                 *)
(***************************************************************************)
Alphabet == {"a", "_"}

RECURSIVE StringsOfLen(_)
StringsOfLen(n) ==
    IF n = 0 THEN {<<>>}
    ELSE {Append(s, c) : s \in StringsOfLen(n - 1), c \in Alphabet}

StringsUpTo(n) == UNION {StringsOfLen(k) : k \in 0..n}

\* upstream.py: SEPARATOR = "__"
SEPARATOR == <<"_", "_">>

\* server.py: SEARCH_TOOLS_NAME = "search_tools"
SEARCH_TOOLS_NAME ==
    <<"s", "e", "a", "r", "c", "h", "_", "t", "o", "o", "l", "s">>

\* the positions at which sep occurs in s
Occurrences(s, sep) ==
    {i \in 1..(Len(s) - Len(sep) + 1) : SubSeq(s, i, i + Len(sep) - 1) = sep}

Contains(s, sep) == Occurrences(s, sep) # {}

MinOf(S) == CHOOSE x \in S : \A y \in S : x <= y

\* str.split(sep, maxsplit=1): cut at the leftmost occurrence of sep, if any
SplitOnce(s, sep) ==
    IF Occurrences(s, sep) = {} THEN <<s>>
    ELSE LET i == MinOf(Occurrences(s, sep))
         IN  <<SubSeq(s, 1, i - 1), SubSeq(s, i + Len(sep), Len(s))>>

(***************************************************************************)
(* NameCodec (upstream.py)                                                 *)
(***************************************************************************)
\* an encoding that joins the two names with a single "_"
prefix_tool_name_single(server_name, tool_name) ==
    server_name \o <<"_">> \o tool_name

prefix_tool_name(server_name, tool_name) ==
    server_name \o SEPARATOR \o tool_name

\* the value of parse_prefixed_name: raised = TRUE stands for ValueError
parse_prefixed_name(prefixed) ==
    LET parts == SplitOnce(prefixed, SEPARATOR)
    IN  IF Len(parts) # 2
        THEN [raised |-> TRUE, server |-> <<>>, tool |-> <<>>]
        ELSE [raised |-> FALSE, server |-> parts[1], tool |-> parts[2]]

(***************************************************************************)
(* The environment: configured origins and what upstream servers report    *)
(***************************************************************************)
\* names an origin can be configured under (keys of config.servers)
OriginNames == {<<"a">>, <<"a", "_">>}

\* names an upstream server can give its tools
LocalNames == {<<"b">>, <<"_", "b">>}

RECURSIVE InjSeqsOfLen(_, _)
InjSeqsOfLen(S, n) ==
    IF n = 0 THEN {<<>>}
    ELSE {Append(s, x) : s \in InjSeqsOfLen(S, n - 1), x \in S} \cap
         {s \in [1..n -> S] : \A i, j \in 1..n : i # j => s[i] # s[j]}

InjSeqsUpTo(S, n) == UNION {InjSeqsOfLen(S, k) : k \in 0..n}

\* config.servers: a dict, so its keys are distinct and keep their order
Configs == InjSeqsUpTo(OriginNames, MaxOrigins) \ {<<>>}

\* result.tools of one session.list_tools() call, as the tools' names
ToolLists == InjSeqsUpTo(LocalNames, MaxTools)

\* how one iteration of connect_all's loop can end: it connects, or
\* stdio_client fails to launch the server (nothing is acquired), or the
\* handshake session.initialize() fails (transport and session are acquired)
ConnectOutcomes == {"ok", "launch_error", "initialize_error"}

RangeOf(s) == {s[i] : i \in 1..Len(s)}

VARIABLES
    config,       \* config.servers, as the sequence of its keys
    lpc,          \* where lifespan() is
    raised,       \* the exception that ended lifespan(), "none" if none
    ci,           \* connect_all: index of the next origin to attempt
    failed,       \* connect_all: failed
    sessions,     \* UpstreamManager.sessions, as the sequence of its keys
    stack,        \* UpstreamManager._stack: entered contexts, oldest first
    attempts,     \* history: the outcome of each connection attempt, in order
    ki,           \* collect_tools: index of the next session to query
    all_tools,    \* collect_tools: all_tools / SmartMCPState.all_tools
    fetches,      \* history: what each list_tools() call returned, in order
    index_tools,  \* EmbeddingIndex._tools
    released,     \* history: the contexts close() has exited, in order
    active_tools, \* SmartMCPState.active_tools
    rpc,          \* where the request in flight is ("idle": none in flight)
    req,          \* the request in flight, or the last one served
    response,     \* the last response returned to the downstream client
    results,      \* results of the last search that returned
    trace,        \* history: what the request did, in order
    upcall,       \* history: the upstream call the request made
    cpc, cO, cN, cEnc, cDec   \* the codec specification's state

lifeVars == <<config, lpc, raised, ci, failed, sessions, stack, attempts, ki,
              all_tools, fetches, index_tools, released>>
reqVars == <<active_tools, rpc, req, response, results, trace, upcall>>
codecVars == <<cpc, cO, cN, cEnc, cDec>>
vars == <<lifeVars, reqVars, codecVars>>

\* a types.Tool, reduced to the field the gateway reads
Tool(name) == [name |-> name]

\* the arguments mapping of a request: a key that is absent has has_* = FALSE
NoArguments == [has_query |-> FALSE, query |-> "", has_top_k |-> FALSE,
                top_k |-> 0, payload |-> "none"]
NoRequest == [op |-> "none", name |-> <<>>, arguments |-> NoArguments]
NoResponse == [kind |-> "none", tools |-> <<>>, name |-> <<>>, content |-> "none"]
NoUpcall == [server |-> <<>>, tool |-> <<>>, arguments |-> NoArguments,
             outcome |-> "none"]

\* SmartMCPState.__init__ / UpstreamManager.__init__ / EmbeddingIndex.__init__
InitFields ==
    /\ raised = "none"
    /\ ci = 1
    /\ failed = <<>>
    /\ sessions = <<>>
    /\ stack = <<>>
    /\ attempts = <<>>
    /\ ki = 1
    /\ all_tools = <<>>
    /\ fetches = <<>>
    /\ index_tools = <<>>
    /\ released = <<>>
    /\ active_tools = <<>>
    /\ rpc = "idle"
    /\ req = NoRequest
    /\ response = NoResponse
    /\ results = <<>>
    /\ trace = <<>>
    /\ upcall = NoUpcall

CodecOff ==
    /\ cpc = "off"
    /\ cO = <<>>
    /\ cN = <<>>
    /\ cEnc = <<>>
    /\ cDec = parse_prefixed_name(<<>>)

Init ==
    /\ config \in Configs
    /\ lpc = "connect_all"
    /\ InitFields
    /\ CodecOff

(***************************************************************************)
(* UpstreamManager.connect_all                                             *)
(***************************************************************************)
\* what one loop iteration leaves on the exit stack
Acquired(name, outcome) ==
    IF outcome = "launch_error" THEN <<>>
    ELSE <<[kind |-> "transport", name |-> name],
           [kind |-> "session", name |-> name]>>

\* a loop that stops at the first origin that fails
connect_all_attempt_abort ==
    /\ lpc = "connect_all"
    /\ ci <= Len(config)
    /\ \E outcome \in ConnectOutcomes :
          LET name == config[ci]
          IN  /\ stack' = stack \o Acquired(name, outcome)
              /\ sessions' = IF outcome = "ok" THEN Append(sessions, name)
                             ELSE sessions
              /\ failed' = IF outcome = "ok" THEN failed
                           ELSE Append(failed, name)
              /\ attempts' = Append(attempts, [name |-> name, outcome |-> outcome])
              /\ ci' = IF outcome = "ok" THEN ci + 1 ELSE Len(config) + 1
    /\ UNCHANGED <<config, lpc, raised, ki, all_tools, fetches, index_tools,
                   released>>
    /\ UNCHANGED <<reqVars, codecVars>>

\* one iteration of the loop over config.servers
connect_all_attempt ==
    /\ lpc = "connect_all"
    /\ ci <= Len(config)
    /\ \E outcome \in ConnectOutcomes :
          LET name == config[ci]
          IN  /\ stack' = stack \o Acquired(name, outcome)
              /\ sessions' = IF outcome = "ok" THEN Append(sessions, name)
                             ELSE sessions
              /\ failed' = IF outcome = "ok" THEN failed
                           ELSE Append(failed, name)
              /\ attempts' = Append(attempts, [name |-> name, outcome |-> outcome])
    /\ ci' = ci + 1
    /\ UNCHANGED <<config, lpc, raised, ki, all_tools, fetches, index_tools,
                   released>>
    /\ UNCHANGED <<reqVars, codecVars>>

\* a connect_all that returns failed even when nothing connected
connect_all_return_lenient ==
    /\ lpc = "connect_all"
    /\ ci > Len(config)
    /\ lpc' = "collect_tools"
    /\ UNCHANGED <<config, raised, ci, failed, sessions, stack, attempts, ki,
                   all_tools, fetches, index_tools, released>>
    /\ UNCHANGED <<reqVars, codecVars>>

\* after the loop: raise when nothing connected, else return failed
connect_all_return ==
    /\ lpc = "connect_all"
    /\ ci > Len(config)
    /\ IF sessions = <<>>
       THEN /\ lpc' = "Failed"
            /\ raised' = "RuntimeError"
       ELSE /\ lpc' = "collect_tools"
            /\ raised' = raised
    /\ UNCHANGED <<config, ci, failed, sessions, stack, attempts, ki,
                   all_tools, fetches, index_tools, released>>
    /\ UNCHANGED <<reqVars, codecVars>>

(***************************************************************************)
(* UpstreamManager.collect_tools                                           *)
(***************************************************************************)
\* the records one session's tools add to all_tools
Prefixed(name, tools) ==
    [i \in 1..Len(tools) |->
        [server |-> name,
         tool |-> Tool(prefix_tool_name(name, tools[i])),
         local |-> tools[i]]]

\* one iteration of the loop over self.sessions: list_tools() returns
collect_tools_fetch ==
    /\ lpc = "collect_tools"
    /\ ki <= Len(sessions)
    /\ \E tools \in ToolLists :
          /\ all_tools' = all_tools \o Prefixed(sessions[ki], tools)
          /\ fetches' = Append(fetches, [name |-> sessions[ki],
                                         outcome |-> "ok", tools |-> tools])
    /\ ki' = ki + 1
    /\ UNCHANGED <<config, lpc, raised, ci, failed, sessions, stack, attempts,
                   index_tools, released>>
    /\ UNCHANGED <<reqVars, codecVars>>

\* one iteration of the loop: list_tools() raises, and nothing catches it
collect_tools_raise ==
    /\ lpc = "collect_tools"
    /\ ki <= Len(sessions)
    /\ fetches' = Append(fetches, [name |-> sessions[ki],
                                   outcome |-> "error", tools |-> <<>>])
    /\ lpc' = "Failed"
    /\ raised' = "list_tools_error"
    /\ UNCHANGED <<config, ci, failed, sessions, stack, attempts, ki,
                   all_tools, index_tools, released>>
    /\ UNCHANGED <<reqVars, codecVars>>

\* after the loop: return all_tools
collect_tools_return ==
    /\ lpc = "collect_tools"
    /\ ki > Len(sessions)
    /\ lpc' = "build_index"
    /\ UNCHANGED <<config, raised, ci, failed, sessions, stack, attempts, ki,
                   all_tools, fetches, index_tools, released>>
    /\ UNCHANGED <<reqVars, codecVars>>

(***************************************************************************)
(* lifespan: index construction, serving, shutdown                         *)
(***************************************************************************)
\* an index built over the tools under their upstream names
tools_only_local == [i \in 1..Len(all_tools) |-> Tool(all_tools[i].local)]

\* tools_only = [tool for _, tool in raw_tools]
tools_only == [i \in 1..Len(all_tools) |-> all_tools[i].tool]

\* EmbeddingIndex(...) and build_index(tools_only) succeed: the state is yielded
build_index ==
    /\ lpc = "build_index"
    /\ index_tools' = tools_only
    /\ lpc' = "Ready"
    /\ UNCHANGED <<config, raised, ci, failed, sessions, stack, attempts, ki,
                   all_tools, fetches, released>>
    /\ UNCHANGED <<reqVars, codecVars>>

\* a lifespan that logs the failure of the index and yields all the same
build_index_raise_yield ==
    /\ lpc = "build_index"
    /\ lpc' = "Ready"
    /\ raised' = "index_error"
    /\ UNCHANGED <<config, ci, failed, sessions, stack, attempts, ki,
                   all_tools, fetches, index_tools, released>>
    /\ UNCHANGED <<reqVars, codecVars>>

\* EmbeddingIndex(...) or build_index(tools_only) raises
build_index_raise ==
    /\ lpc = "build_index"
    /\ lpc' = "Failed"
    /\ raised' = "index_error"
    /\ UNCHANGED <<config, ci, failed, sessions, stack, attempts, ki,
                   all_tools, fetches, index_tools, released>>
    /\ UNCHANGED <<reqVars, codecVars>>

\* the server stops: lifespan's finally clause calls upstream.close().  No
\* request is served from here on: the yielded SmartMCPState goes out of
\* scope, the record of the last request is dropped and a request in flight
\* is abandoned.
lifespan_exit ==
    /\ lpc = "Ready"
    /\ lpc' = "closing"
    /\ active_tools' = <<>>
    /\ rpc' = "idle"
    /\ req' = NoRequest
    /\ response' = NoResponse
    /\ results' = <<>>
    /\ trace' = <<>>
    /\ upcall' = NoUpcall
    /\ UNCHANGED <<config, raised, ci, failed, sessions, stack, attempts, ki,
                   all_tools, fetches, index_tools, released>>
    /\ UNCHANGED codecVars

\* a close() that gives up at the first exit that raises
close_stop_on_error ==
    /\ lpc = "closing"
    /\ stack # <<>>
    /\ \E outcome \in {"ok", "error"} :
          /\ released' = Append(released, [kind |-> stack[Len(stack)].kind,
                                           name |-> stack[Len(stack)].name,
                                           outcome |-> outcome])
          /\ lpc' = IF Len(stack) = 1 \/ outcome = "error" THEN "closed"
                    ELSE "closing"
    /\ stack' = SubSeq(stack, 1, Len(stack) - 1)
    /\ UNCHANGED <<config, raised, ci, failed, sessions, attempts, ki,
                   all_tools, fetches, index_tools>>
    /\ UNCHANGED <<reqVars, codecVars>>

\* UpstreamManager.close: AsyncExitStack.aclose() exits the contexts last in,
\* first out; an exit that raises does not stop the exits that follow
close ==
    /\ lpc = "closing"
    /\ stack # <<>>
    /\ \E outcome \in {"ok", "error"} :
          released' = Append(released, [kind |-> stack[Len(stack)].kind,
                                        name |-> stack[Len(stack)].name,
                                        outcome |-> outcome])
    /\ stack' = SubSeq(stack, 1, Len(stack) - 1)
    /\ lpc' = IF Len(stack) = 1 THEN "closed" ELSE "closing"
    /\ UNCHANGED <<config, raised, ci, failed, sessions, attempts, ki,
                   all_tools, fetches, index_tools>>
    /\ UNCHANGED <<reqVars, codecVars>>

(***************************************************************************)
(* Requests of the downstream client.  The session serves one request at   *)
(* a time: a handler runs from rpc = "idle" back to rpc = "idle", in two   *)
(* steps when it awaits the downstream send or the upstream call.          *)
(***************************************************************************)
\* server.py: SEARCH_TOOLS_SCHEMA
SEARCH_TOOLS_SCHEMA == Tool(SEARCH_TOOLS_NAME)

\* the identifiers a call_tool request can name: the discovery tool, one
\* name without a separator, the encoded identifier of tool "b" of an origin
\* that is never configured, and that of tool "b" of every origin that can
\* be ("a___b", that of ("a_", "b"), is also that of ("a", "_b"))
CallNames ==
    {SEARCH_TOOLS_NAME, <<"b">>, prefix_tool_name(<<"c">>, <<"b">>)} \cup
    {prefix_tool_name(o, <<"b">>) : o \in OriginNames}

Queries == {"", "read a document"}
Payloads == {"x1", "x2"}
Contents == {"r1", "r2"}

\* the arguments of a discovery request
SearchArguments ==
    {[has_query |-> hq, query |-> q, has_top_k |-> hk, top_k |-> k,
      payload |-> "none"] :
        hq \in BOOLEAN, q \in Queries, hk \in BOOLEAN, k \in 0..MaxTopK}
    \cap {a \in [has_query : BOOLEAN, query : Queries, has_top_k : BOOLEAN,
                 top_k : 0..MaxTopK, payload : {"none"}] :
            /\ (~a.has_query => a.query = "")
            /\ (~a.has_top_k => a.top_k = 0)}

\* the arguments of any other request
ProxyArguments ==
    {[has_query |-> FALSE, query |-> "", has_top_k |-> FALSE, top_k |-> 0,
      payload |-> x] : x \in Payloads}

\* arguments.get("query", "")
GetQuery(arguments) == IF arguments.has_query THEN arguments.query ELSE ""

\* arguments.get("top_k", state.config.top_k)
GetTopK(arguments) == IF arguments.has_top_k THEN arguments.top_k ELSE DefaultTopK

\* a handler that only asks whether the key is there
QueryMissing_absent(arguments) == ~arguments.has_query

\* query = arguments.get("query", ""); not query
QueryMissing(arguments) == GetQuery(arguments) = ""

Min(a, b) == IF a <= b THEN a ELSE b
Max(a, b) == IF a >= b THEN a ELSE b

\* EmbeddingIndex.search(query, top_k) when it returns: k is clamped to at
\* least 1 and at most the catalog size, and the k nearest tools come back,
\* nearest first.  Which tools are nearest is the embedding's business, so
\* every choice of k distinct index positions is possible; the scores are
\* left out, no handler branches on them.
search(query, top_k) ==
    LET n == Len(index_tools)
        k == Min(Max(top_k, 1), n)
    IN  {[i \in 1..k |-> index_tools[p[i]]] : p \in InjSeqsOfLen(1..n, k)}

\* a handler that adds the results to the active set
NewActiveTools_extend(old, found) == old \o found

\* state.active_tools = [tool for tool, _ in results]
NewActiveTools(old, found) == found

\* a handler that lists the active set alone
ListedTools_bare(active) == active

\* [SEARCH_TOOLS_SCHEMA] + state.active_tools
ListedTools(active) == <<SEARCH_TOOLS_SCHEMA>> \o active

\* a list handler that empties the active set once it has listed it
handle_list_tools_consume ==
    /\ lpc = "Ready"
    /\ rpc = "idle"
    /\ req' = [op |-> "list_tools", name |-> <<>>, arguments |-> NoArguments]
    /\ response' = [kind |-> "tools", tools |-> ListedTools(active_tools),
                    name |-> <<>>, content |-> "none"]
    /\ trace' = <<>>
    /\ upcall' = NoUpcall
    /\ active_tools' = <<>>
    /\ UNCHANGED <<rpc, results>>
    /\ UNCHANGED <<lifeVars, codecVars>>

\* handle_list_tools
handle_list_tools ==
    /\ lpc = "Ready"
    /\ rpc = "idle"
    /\ req' = [op |-> "list_tools", name |-> <<>>, arguments |-> NoArguments]
    /\ response' = [kind |-> "tools", tools |-> ListedTools(active_tools),
                    name |-> <<>>, content |-> "none"]
    /\ trace' = <<>>
    /\ upcall' = NoUpcall
    /\ UNCHANGED <<active_tools, rpc, results>>
    /\ UNCHANGED <<lifeVars, codecVars>>

\* a handler that empties the active set when the search raises
ActiveAfterSearchError_clear(old) == <<>>

\* state.active_tools when the search raised: the except clause returns
\* before the assignment
ActiveAfterSearchError(old) == old

\* handle_call_tool, name == SEARCH_TOOLS_NAME: up to the await of the
\* notification
call_search_tools ==
    /\ lpc = "Ready"
    /\ rpc = "idle"
    /\ \E arguments \in SearchArguments :
          LET query == GetQuery(arguments)
              top_k == GetTopK(arguments)
          IN  /\ req' = [op |-> "call_tool", name |-> SEARCH_TOOLS_NAME,
                         arguments |-> arguments]
              /\ upcall' = NoUpcall
              /\ IF QueryMissing(arguments)
                 THEN /\ response' = [kind |-> "query_required", tools |-> <<>>,
                                      name |-> <<>>, content |-> "none"]
                      /\ trace' = <<>>
                      /\ UNCHANGED <<active_tools, rpc, results>>
                 ELSE \/ \* state.index.search raises
                         /\ response' = [kind |-> "search_error", tools |-> <<>>,
                                         name |-> <<>>, content |-> "none"]
                         /\ trace' = <<"search_raised">>
                         /\ active_tools' = ActiveAfterSearchError(active_tools)
                         /\ UNCHANGED <<rpc, results>>
                      \/ \* state.index.search returns
                         \E found \in search(query, top_k) :
                            /\ results' = found
                            /\ active_tools' = NewActiveTools(active_tools, found)
                            /\ trace' = <<"search", "replace">>
                            /\ rpc' = "notify"
                            /\ UNCHANGED response
    /\ UNCHANGED <<lifeVars, codecVars>>

\* a handler that lets the failure of send_tool_list_changed() escape
NotifyResponse_propagate(outcome, found) ==
    IF outcome = "notify_raised"
    THEN [kind |-> "exception", tools |-> <<>>, name |-> <<>>, content |-> "none"]
    ELSE [kind |-> "summary", tools |-> found, name |-> <<>>, content |-> "none"]

\* what the discovery call returns once send_tool_list_changed() is over:
\* the summary, whether the send returned or raised
NotifyResponse(outcome, found) ==
    [kind |-> "summary", tools |-> found, name |-> <<>>, content |-> "none"]

\* a handler that sends the notification a second time
NotifyTrace_twice(outcome) == <<outcome, outcome>>

\* the calls of send_tool_list_changed() one discovery call makes
NotifyTrace(outcome) == <<outcome>>

\* handle_call_tool, name == SEARCH_TOOLS_NAME: the notification and the summary
call_search_tools_notify ==
    /\ lpc = "Ready"
    /\ rpc = "notify"
    /\ \E outcome \in {"notify_sent", "notify_raised"} :
          /\ trace' = trace \o NotifyTrace(outcome)
          /\ response' = NotifyResponse(outcome, results)
    /\ rpc' = "idle"
    /\ UNCHANGED <<active_tools, req, results, upcall>>
    /\ UNCHANGED <<lifeVars, codecVars>>

\* a lookup among the configured origins, connected or not
HasSession_configured(server_name) == server_name \in RangeOf(config)

\* state.upstream.sessions.get(server_name) is a session
HasSession(server_name) == server_name \in RangeOf(sessions)

\* handle_call_tool, any other name: up to the await of the upstream call
call_proxy ==
    /\ lpc = "Ready"
    /\ rpc = "idle"
    /\ \E name \in CallNames \ {SEARCH_TOOLS_NAME}, arguments \in ProxyArguments :
          LET parsed == parse_prefixed_name(name)
          IN  /\ req' = [op |-> "call_tool", name |-> name,
                         arguments |-> arguments]
              /\ trace' = <<>>
              /\ IF parsed.raised
                 THEN /\ response' = [kind |-> "unknown_tool", tools |-> <<>>,
                                      name |-> name, content |-> "none"]
                      /\ upcall' = NoUpcall
                      /\ rpc' = rpc
                 ELSE IF ~HasSession(parsed.server)
                 THEN /\ response' = [kind |-> "no_upstream", tools |-> <<>>,
                                      name |-> parsed.server, content |-> "none"]
                      /\ upcall' = NoUpcall
                      /\ rpc' = rpc
                 ELSE /\ upcall' = [server |-> parsed.server, tool |-> parsed.tool,
                                    arguments |-> arguments, outcome |-> "pending"]
                      /\ rpc' = "call"
                      /\ UNCHANGED response
    /\ UNCHANGED <<active_tools, results>>
    /\ UNCHANGED <<lifeVars, codecVars>>

\* a handler that calls the upstream session again when the call raised
CallTrace_retry(outcome) ==
    IF outcome = "raised" THEN <<"call_tool", "call_tool">> ELSE <<"call_tool">>

\* the calls of upstream_session.call_tool one proxied invocation makes
CallTrace(outcome) == <<"call_tool">>

\* handle_call_tool, any other name: upstream_session.call_tool is over
call_proxy_result ==
    /\ lpc = "Ready"
    /\ rpc = "call"
    /\ \/ \E content \in Contents :
             /\ response' = [kind |-> "content", tools |-> <<>>,
                             name |-> <<>>, content |-> content]
             /\ upcall' = [upcall EXCEPT !.outcome = content]
             /\ trace' = trace \o CallTrace(content)
       \/ /\ response' = [kind |-> "call_error", tools |-> <<>>,
                          name |-> req.name, content |-> "none"]
          /\ upcall' = [upcall EXCEPT !.outcome = "raised"]
          /\ trace' = trace \o CallTrace("raised")
    /\ rpc' = "idle"
    /\ UNCHANGED <<active_tools, req, results>>
    /\ UNCHANGED <<lifeVars, codecVars>>

(***************************************************************************)
(* The gateway                                                             *)
(***************************************************************************)
Next ==
    \/ connect_all_attempt
    \/ connect_all_return
    \/ collect_tools_fetch
    \/ collect_tools_raise
    \/ collect_tools_return
    \/ build_index
    \/ build_index_raise
    \/ handle_list_tools
    \/ call_search_tools
    \/ call_search_tools_notify
    \/ call_proxy
    \/ call_proxy_result
    \/ lifespan_exit
    \/ close

Spec == Init /\ [][Next]_vars

(***************************************************************************)
(* The name codec on its own: encode one pair, then decode the result      *)
(***************************************************************************)
\* the names the codec is tried on: every short string, and every head of
\* "search_tools" as an origin name with every tail of it as a tool name
CodecOrigins ==
    StringsUpTo(MaxLen) \cup
    {SubSeq(SEARCH_TOOLS_NAME, 1, i) : i \in 0..Len(SEARCH_TOOLS_NAME)}

CodecLocals ==
    StringsUpTo(MaxLen) \cup
    {SubSeq(SEARCH_TOOLS_NAME, j, Len(SEARCH_TOOLS_NAME)) :
        j \in 1..(Len(SEARCH_TOOLS_NAME) + 1)}

InitCodec ==
    /\ config = <<>>
    /\ lpc = "off"
    /\ InitFields
    /\ cpc = "start"
    /\ cO \in CodecOrigins
    /\ cN \in CodecLocals
    /\ cEnc = <<>>
    /\ cDec = parse_prefixed_name(<<>>)

Encode ==
    /\ cpc = "start"
    /\ cEnc' = prefix_tool_name(cO, cN)
    /\ cpc' = "encoded"
    /\ UNCHANGED <<cO, cN, cDec, lifeVars, reqVars>>

Decode ==
    /\ cpc = "encoded"
    /\ cDec' = parse_prefixed_name(cEnc)
    /\ cpc' = "decoded"
    /\ UNCHANGED <<cO, cN, cEnc, lifeVars, reqVars>>

NextCodec == Encode \/ Decode

SpecCodec == InitCodec /\ [][NextCodec]_vars

(***************************************************************************)
(* Properties                                                              *)
(***************************************************************************)
\* C1: for every origin name O without the separator "__" and every local
\* name N, parse_prefixed_name(prefix_tool_name(O, N)) returns (O, N).
\* Stated as written; the code breaks it for an origin that ends in "_".
C1_RoundTrip ==
    (cpc = "decoded" /\ ~Contains(cO, SEPARATOR)) =>
        /\ ~cDec.raised
        /\ cDec.server = cO
        /\ cDec.tool = cN

\* connect_all has returned its failure list
ConnectReturned ==
    \/ lpc \in {"collect_tools", "build_index", "Ready", "closing", "closed"}
    \/ lpc = "Failed" /\ raised # "RuntimeError"

\* collect_tools has returned the catalog
CollectReturned ==
    \/ lpc \in {"build_index", "Ready", "closing", "closed"}
    \/ lpc = "Failed" /\ raised = "index_error"

\* C2: in a catalog that collect_tools built from pairwise distinct
\* (origin, local name) pairs, the encoded identifiers are pairwise distinct.
\* Stated as written; the code breaks it for the pairs ("a_", "b"), ("a", "_b").
C2_IdentifiersDistinct ==
    CollectReturned =>
        \A i, j \in 1..Len(all_tools) :
            (<<all_tools[i].server, all_tools[i].local>> #
             <<all_tools[j].server, all_tools[j].local>>)
            => all_tools[i].tool.name # all_tools[j].tool.name

\* the names of the attempts whose outcome satisfies Test, in order
AttemptNames(Test(_)) ==
    LET picked == SelectSeq(attempts, LAMBDA a : Test(a.outcome))
    IN  [i \in 1..Len(picked) |-> picked[i].name]

IsOk(outcome) == outcome = "ok"
IsFailure(outcome) == outcome # "ok"

\* C3: connect_all does not end while a configured origin is still to be
\* attempted, whatever the outcome of the ones before it; once it has
\* returned, every configured origin has been attempted, the returned list
\* holds exactly the origins whose attempt failed and the session set
\* exactly the origins whose attempt succeeded.
C3_ConnectAllIndependent ==
    /\ Len(attempts) < Len(config) => lpc = "connect_all"
    /\ ConnectReturned =>
          /\ Len(attempts) = Len(config)
          /\ \A i \in 1..Len(config) : attempts[i].name = config[i]
          /\ failed = AttemptNames(IsFailure)
          /\ sessions = AttemptNames(IsOk)

\* C3 witness: the first origin failed after its transport was up, the
\* second connected all the same, and connect_all returned.
C3_Witness ==
    /\ lpc = "collect_tools"
    /\ Len(config) = 2
    /\ attempts[1].outcome = "initialize_error"
    /\ attempts[2].outcome = "ok"
    /\ failed = <<config[1]>>
    /\ sessions = <<config[2]>>

\* every configured origin has been attempted and none connected
AllFailed ==
    /\ ci > Len(config)
    /\ \A i \in 1..Len(attempts) : attempts[i].outcome # "ok"

\* C4: when every origin fails, connect_all raises, and only after it has
\* attempted all of them; the gateway is never Ready and serves no request.
C4_TotalFailureIsFatal ==
    /\ AllFailed =>
          /\ lpc = "connect_all" \/ (lpc = "Failed" /\ raised = "RuntimeError")
          /\ req = NoRequest
          /\ response = NoResponse
    /\ raised = "RuntimeError" => AllFailed /\ Len(attempts) = Len(config)

\* C4 witness: two origins, both failed, connect_all raised.
C4_Witness ==
    /\ lpc = "Failed"
    /\ raised = "RuntimeError"
    /\ Len(config) = 2
    /\ Len(failed) = 2

\* C5: a list_tools() failure of one session is caught by collect_tools,
\* which goes on and returns normally.  Stated as written; the code has no
\* handler there, so the failure ends collect_tools and the startup.
C5_FetchFailureIsCaught ==
    (\E i \in 1..Len(fetches) : fetches[i].outcome = "error") =>
        ~(lpc = "Failed" /\ raised = "list_tools_error")

\* the last request served is a listTools
ListServed == req.op = "list_tools" /\ response.kind = "tools"

\* the last request served is a discovery call that returned its summary
DiscoveryServed ==
    /\ req.op = "call_tool"
    /\ req.name = SEARCH_TOOLS_NAME
    /\ rpc = "idle"
    /\ response.kind = "summary"

\* C6: after a discovery call whose search returned the tools R, listTools
\* returns the discovery tool followed by R, in order, and nothing else: the
\* active set is R, whatever it was before.
C6_ReplacementIsTotal ==
    /\ ListServed => response.tools = <<SEARCH_TOOLS_SCHEMA>> \o results
    /\ DiscoveryServed => active_tools = results

\* C6 witness: listTools after a discovery call that returned three tools.
C6_Witness ==
    /\ ListServed
    /\ Len(results) = 3
    /\ Len(response.tools) = 4
    /\ Len(index_tools) = 4

\* C7: listTools returns the discovery tool first and then the current
\* active set, in order; the active set is empty when the gateway becomes
\* Ready, so the first listTools returns the discovery tool alone.
C7_ListIsDiscoveryThenActive ==
    /\ ListServed =>
          /\ Len(response.tools) = Len(active_tools) + 1
          /\ response.tools[1] = SEARCH_TOOLS_SCHEMA
          /\ Tail(response.tools) = active_tools
    /\ (lpc = "Ready" /\ req = NoRequest) => active_tools = <<>>

\* C7 witness: listTools with two tools active.
C7_Witness ==
    /\ ListServed
    /\ Len(active_tools) = 2
    /\ lpc = "Ready"

NotifyEvents == {"notify_sent", "notify_raised"}

\* C8: a discovery call that succeeds calls send_tool_list_changed() exactly
\* once, and only after the active set holds that call's results; no other
\* request calls it.
C8_NotifyOnceAfterReplace ==
    /\ DiscoveryServed =>
          /\ Len(trace) = 3
          /\ trace[1] = "search"
          /\ trace[2] = "replace"
          /\ trace[3] \in NotifyEvents
    /\ rpc = "notify" =>
          /\ trace = <<"search", "replace">>
          /\ active_tools = results
    /\ \A i \in 1..Len(trace) :
          trace[i] \in NotifyEvents => DiscoveryServed /\ i = 3

\* C8 witness: a discovery call has sent its one notification.
C8_Witness ==
    /\ DiscoveryServed
    /\ trace = <<"search", "replace", "notify_sent">>
    /\ Len(results) >= 1

\* C9: when send_tool_list_changed() raises, the discovery call still
\* returns the summary of the matched tools and the active set keeps the
\* new results.
C9_NotifyFailureSwallowed ==
    (rpc = "idle" /\ Len(trace) >= 1 /\ trace[Len(trace)] = "notify_raised") =>
        /\ response.kind = "summary"
        /\ response.tools = results
        /\ active_tools = results

\* C9 witness: the send raised in a discovery call that matched two tools.
C9_Witness ==
    /\ rpc = "idle"
    /\ trace = <<"search", "replace", "notify_raised">>
    /\ Len(results) = 2

\* the step serves a discovery call whose query is absent or empty
MissingQueryStep ==
    /\ lpc = "Ready"
    /\ lpc' = "Ready"
    /\ rpc = "idle"
    /\ req'.op = "call_tool"
    /\ req'.name = SEARCH_TOOLS_NAME
    /\ (~req'.arguments.has_query \/ req'.arguments.query = "")

\* C10: a discovery call whose query is absent or empty returns the textual
\* error as its response, makes no search, leaves the active set as it was
\* and sends no notification.
C10_MissingQuery ==
    [][MissingQueryStep =>
          /\ response'.kind = "query_required"
          /\ rpc' = "idle"
          /\ trace' = <<>>
          /\ active_tools' = active_tools
          /\ results' = results]_vars

\* C10 witness: an empty query was refused while tools were active.
C10_Witness ==
    /\ req.op = "call_tool"
    /\ req.name = SEARCH_TOOLS_NAME
    /\ req.arguments.has_query
    /\ req.arguments.query = ""
    /\ response.kind = "query_required"
    /\ active_tools # <<>>

\* the last request names something other than the discovery tool
ProxiedRequest == req.op = "call_tool" /\ req.name # SEARCH_TOOLS_NAME

\* the identifier has no separator, or decodes to an origin without a session
Undispatchable(name) ==
    \/ ~Contains(name, SEPARATOR)
    \/ parse_prefixed_name(name).server \notin RangeOf(sessions)

\* C11: an invocation of an identifier that is not the discovery identifier
\* and has no separator, or decodes to an origin with no connected session,
\* is answered at once with a textual result (unknown tool / no upstream
\* server): nothing escapes the handler and no upstream session is called.
C11_UnknownToolIsTextual ==
    (ProxiedRequest /\ Undispatchable(req.name)) =>
        /\ rpc = "idle"
        /\ response.kind \in {"unknown_tool", "no_upstream"}
        /\ response.kind = "unknown_tool" <=> ~Contains(req.name, SEPARATOR)
        /\ upcall = NoUpcall
        /\ trace = <<>>

\* C11 witness: the identifier of a tool of an origin that was configured
\* but failed to connect is refused.
C11_Witness ==
    /\ ProxiedRequest
    /\ response.kind = "no_upstream"
    /\ response.name \in RangeOf(failed)
    /\ upcall = NoUpcall

\* C12: an invocation of the encoded identifier of (origin O, local name N),
\* O connected, calls O's session with tool name N and the request's
\* arguments and relays the content it returns, whether or not the tool is
\* active.  Stated as written, for the tool "b" of every connected origin;
\* the code breaks it for the origin "a_", whose identifier "a___b" decodes
\* to ("a", "_b").
C12_DispatchToOwner ==
    \A o \in RangeOf(sessions) :
        (ProxiedRequest /\ req.name = prefix_tool_name(o, <<"b">>)) =>
            /\ upcall.server = o
            /\ upcall.tool = <<"b">>
            /\ upcall.arguments = req.arguments
            /\ (rpc = "idle" /\ upcall.outcome \in Contents) =>
                   /\ response.kind = "content"
                   /\ response.content = upcall.outcome

\* the calls of upstream_session.call_tool in the trace
UpstreamCalls == Len(SelectSeq(trace, LAMBDA e : e = "call_tool"))

\* C13: a proxied invocation calls the upstream session at most once; when
\* that call raises, the handler returns the textual error for the
\* identifier and calls nothing again.
C13_NoRetry ==
    /\ UpstreamCalls <= 1
    /\ (ProxiedRequest /\ rpc = "idle" /\ upcall.outcome = "raised") =>
          /\ response.kind = "call_error"
          /\ response.name = req.name
          /\ trace = <<"call_tool">>

\* C13 witness: the upstream call of a proxied invocation raised.
C13_Witness ==
    /\ ProxiedRequest
    /\ rpc = "idle"
    /\ upcall.outcome = "raised"
    /\ response.kind = "call_error"

\* everything the connection attempts entered on the exit stack, oldest first
RECURSIVE AcquiredBy(_)
AcquiredBy(done) ==
    IF done = <<>> THEN <<>>
    ELSE AcquiredBy(SubSeq(done, 1, Len(done) - 1)) \o
         Acquired(done[Len(done)].name, done[Len(done)].outcome)

Reverse(s) == [i \in 1..Len(s) |-> s[Len(s) + 1 - i]]

\* the contexts close() has exited, in the order it exited them
ReleasedResources ==
    [i \in 1..Len(released) |->
        [kind |-> released[i].kind, name |-> released[i].name]]

\* C14: close() exits the transports and sessions connect_all acquired in
\* strictly reverse order of acquisition, and goes on to the ones acquired
\* earlier when an exit raises: when it ends, all of them have been exited.
C14_CloseReverseOrder ==
    /\ lpc \in {"closing", "closed"} =>
          stack \o Reverse(ReleasedResources) = AcquiredBy(attempts)
    /\ lpc = "closed" =>
          /\ stack = <<>>
          /\ ReleasedResources = Reverse(AcquiredBy(attempts))

\* C14 witness: four contexts were exited, the first exit raised, the others
\* ran all the same.
C14_Witness ==
    /\ lpc = "closed"
    /\ Len(released) = 4
    /\ released[1].outcome = "error"
    /\ released[4].outcome = "ok"
    /\ released[1].kind = "session"
    /\ released[4].kind = "transport"

\* the tools of the catalog collected at startup
CatalogTools == {all_tools[j].tool : j \in 1..Len(all_tools)}

\* C15: in every reachable state, whatever requests were served, every tool
\* of the active set is a tool of the catalog collected at startup.
C15_ActiveWithinCatalog ==
    \A i \in 1..Len(active_tools) : active_tools[i] \in CatalogTools

\* C15 witness: after a discovery call and a proxied invocation, two tools of
\* a catalog of four records are active.
C15_Witness ==
    /\ lpc = "Ready"
    /\ ProxiedRequest
    /\ Len(active_tools) = 2
    /\ Len(all_tools) = 4

\* C16: whatever the origin name and the local tool name, the encoded
\* identifier is never the reserved discovery identifier "search_tools".
C16_DiscoveryNameReserved ==
    cpc \in {"encoded", "decoded"} => cEnc # SEARCH_TOOLS_NAME

\* C16 witness: origin "search" with tool "tools", the pair closest to the
\* reserved identifier, has been encoded.
C16_Witness ==
    /\ cpc = "encoded"
    /\ cO = SubSeq(SEARCH_TOOLS_NAME, 1, 6)
    /\ cN = SubSeq(SEARCH_TOOLS_NAME, 8, 12)
    /\ cEnc = cO \o <<"_", "_">> \o cN

\* the step belongs to a listTools or to a proxied invocation
NonDiscoveryStep ==
    /\ lpc = "Ready"
    /\ lpc' = "Ready"
    /\ \/ req'.op = "list_tools"
       \/ req'.op = "call_tool" /\ req'.name # SEARCH_TOOLS_NAME

\* C17: listTools and every proxied invocation, whether it is refused, its
\* upstream call returns or its upstream call raises, leave the active set
\* as it was and send no "tool list changed" notification: only a discovery
\* call writes the active set.
C17_SingleWriter ==
    [][NonDiscoveryStep =>
          /\ active_tools' = active_tools
          /\ \A i \in 1..Len(trace') : trace'[i] \notin NotifyEvents]_vars

\* C17 witness: a proxied invocation whose upstream call raised has been
\* served while two tools were active.
C17_Witness ==
    /\ ProxiedRequest
    /\ rpc = "idle"
    /\ response.kind = "call_error"
    /\ Len(active_tools) = 2

\* C18: the gateway is Ready, and serves requests, only once connect_all,
\* collect_tools and the index construction have completed without an
\* error, in that order; a startup that raised is never Ready and serves
\* nothing.
C18_ReadyAfterStartup ==
    /\ lpc = "Ready" =>
          /\ raised = "none"
          /\ Len(attempts) = Len(config)
          /\ sessions # <<>>
          /\ Len(fetches) = Len(sessions)
          /\ \A i \in 1..Len(fetches) : fetches[i].outcome = "ok"
          /\ index_tools = tools_only
    /\ fetches # <<>> => Len(attempts) = Len(config)
    /\ index_tools # <<>> => Len(fetches) = Len(sessions)
    /\ raised # "none" =>
          /\ lpc = "Failed"
          /\ req = NoRequest
          /\ response = NoResponse
    /\ req # NoRequest => lpc = "Ready"

\* C18 witness: two origins connected, their tools were collected and
\* indexed, and a request has been served.
C18_Witness ==
    /\ lpc = "Ready"
    /\ Len(sessions) = 2
    /\ Len(index_tools) >= 1
    /\ response # NoResponse

\* the step is a discovery call, with a query, whose search raises
SearchRaisedStep ==
    /\ lpc = "Ready"
    /\ lpc' = "Ready"
    /\ rpc = "idle"
    /\ req'.op = "call_tool"
    /\ req'.name = SEARCH_TOOLS_NAME
    /\ trace' = <<"search_raised">>

\* C19: when the search of a discovery call with a non-empty query raises,
\* the call returns the textual search error as its response, the active
\* set keeps its value and no notification is sent.
C19_SearchErrorKeepsActive ==
    [][SearchRaisedStep =>
          /\ req'.arguments.has_query
          /\ req'.arguments.query # ""
          /\ response'.kind = "search_error"
          /\ rpc' = "idle"
          /\ active_tools' = active_tools
          /\ results' = results]_vars

\* C19 witness: a search raised while two tools were active.
C19_Witness ==
    /\ req.name = SEARCH_TOOLS_NAME
    /\ rpc = "idle"
    /\ response.kind = "search_error"
    /\ trace = <<"search_raised">>
    /\ Len(active_tools) = 2

\* C20: whatever way the startup ends, the resources it acquired are
\* released: when lifespan has ended, by an error of connect_all, of
\* collect_tools or of the index construction or by a shutdown, the exit
\* stack is empty.  Stated as written; the code calls close() only in the
\* finally clause around the yield, which a failed startup never enters.
C20_ReleasedOnEveryOutcome ==
    lpc \in {"Failed", "closed"} => stack = <<>>

====
